---- MODULE Spec2Model ----
(***************************************************************************)
(* A model of anagram.py: the prefix tree of letter-frequency vectors      *)
(* (_VectorSet), the dominance query (query_lte), the depth-first search   *)
(* for vector tuples (_find_anagram_vecs), the expansion into word tuples  *)
(* (_expand_anagram_vecs) and the pipeline find_anagrams.                  *)
(*                                                                         *)
(* Scaling.  The program counts the 26 letters A..Z; the model counts the  *)
(* letters of Letters (two of them), so a frequency vector is a 2-tuple.   *)
(* Raw text is a sequence of one-character strings drawn from Chars: an    *)
(* upper-case letter, a lower-case letter and a character that is no       *)
(* letter.                                                                 *)
(*                                                                         *)
(* Iteration order.  The program iterates a set (the loaded words) and     *)
(* dictionaries (vec_dict.keys(), children.items()).  Python 2 leaves that *)
(* order unspecified, so the model draws it nondeterministically: the      *)
(* next word or key is any one not yet taken, and a new child key enters   *)
(* the iteration order of its node first or last.                          *)
(***************************************************************************)
EXTENDS Integers, Sequences, FiniteSets, TLC

VARIABLES
    pc,               \* position of the run
    query_string,     \* find_anagrams argument, raw
    lines,            \* the lines of the word list file, raw
    min_word_length,  \* find_anagrams argument
    query_word,       \* canonicalized query (find_anagrams, line 174)
    query_vec,        \* find_anagrams' query_vec (line 175)
    tree_query_vec,   \* _make_tree's local query_vec, or Unbound (line 118)
    words,            \* the set returned by _load_words
    pending,          \* words the loop of line 120 has not visited yet
    vec_dict,         \* vector -> list of words
    todo,             \* keys the loop of line 125 has not inserted yet
    tree,             \* the _VectorSet
    stack,            \* the live _find_anagram_vecs generator frames
    anagram_vecs,     \* vector tuples yielded by _find_anagram_vecs so far
    expanded,         \* word tuples yielded for the latest vector tuple
    outputs,          \* word tuples yielded by find_anagrams so far
    error,            \* "none" or the exception that ended the run
    min_vec,          \* lower bound of a direct query_lte call
    lte_out           \* the vectors that direct query_lte call yielded

vars == <<pc, query_string, lines, min_word_length, query_word, query_vec,
          tree_query_vec, words, pending, vec_dict, todo, tree, stack,
          anagram_vecs, expanded, outputs, error, min_vec, lte_out>>

----------------------------------------------------------------------------
(* Bounds of the model. *)

MaxQueryLen == 4
MaxLineLen == 2
MaxLines == 2
MaxMinWordLength == 2
MaxIndex == 3

\* The interpreter's recursion limit, scaled: deeper than any search of a
\* query of MaxQueryLen letters over non-zero vectors can go.
StackLimit == MaxQueryLen + 3

----------------------------------------------------------------------------
(* Text and vectors. *)

Letters == <<"A", "B">>
NLetters == Len(Letters)
Chars == {"A", "b", "-"}
\* the value of a local name that was never assigned
Unbound == <<"unbound">>

Range(s) == {s[i] : i \in 1..Len(s)}
SeqsUpTo(S, n) == UNION {[1..k -> S] : k \in 0..n}

RECURSIVE SumSeq(_)
SumSeq(s) == IF s = <<>> THEN 0 ELSE s[1] + SumSeq(Tail(s))

\* str.upper()
Upper(c) == IF c = "a" THEN "A" ELSE IF c = "b" THEN "B" ELSE c

\* _STRIP_RE.sub('', word.upper())
_canonicalize_word(word) ==
    SelectSeq([i \in 1..Len(word) |-> Upper(word[i])],
              LAMBDA c : c \in Range(Letters))

\* tuple(counter[l] for l in letters)
_make_vec(word) ==
    [l \in 1..NLetters |-> Cardinality({i \in 1..Len(word) : word[i] = Letters[l]})]

\* _load_words with > for >= in the length filter
_load_words_strict(file, mwl) ==
    {w \in {_canonicalize_word(file[i]) : i \in 1..Len(file)} : Len(w) > mwl}

\* _load_words without the length filter
_load_words_all(file, mwl) ==
    {_canonicalize_word(file[i]) : i \in 1..Len(file)}

\* a set comprehension: one element per distinct canonicalized line
_load_words(file, mwl) ==
    {w \in {_canonicalize_word(file[i]) : i \in 1..Len(file)} : Len(w) >= mwl}

_vec_sub(v1, v2) == [i \in 1..Len(v1) |-> v1[i] - v2[i]]

\* all(a <= b for a, b in zip(v1, v2)): zip stops at the shorter one
_vec_lte(v1, v2) ==
    \A i \in 1..(IF Len(v1) < Len(v2) THEN Len(v1) ELSE Len(v2)) : v1[i] <= v2[i]

ZeroVec == [l \in 1..NLetters |-> 0]

\* the vectors of at most n letters
Signatures(n) == {v \in [1..NLetters -> 0..n] : SumSeq(v) <= n}

\* Python's tuple order
LexLess(a, b) ==
    \/ \E i \in 1..Len(a) :
          /\ i <= Len(b)
          /\ a[i] < b[i]
          /\ \A j \in 1..(i - 1) : a[j] = b[j]
    \/ /\ Len(a) < Len(b)
       /\ \A j \in 1..Len(a) : a[j] = b[j]
LexLeq(a, b) == a = b \/ LexLess(a, b)

----------------------------------------------------------------------------
(* The prefix tree. *)

\* _VectorSet.__init__
EmptyNode == [present |-> FALSE, children |-> <<>>]

ChildIndex(node, val) ==
    IF \E k \in 1..Len(node.children) : node.children[k].val = val
    THEN CHOOSE k \in 1..Len(node.children) : node.children[k].val = val
    ELSE 0

\* self.children[vec[0]]._add_vec(vec[1:]) / self.present = True.
\* front[d] places a key that is new at depth d first (TRUE) or last (FALSE)
\* in the iteration order of its node.
RECURSIVE _add_vec(_, _, _)
_add_vec(node, vec, front) ==
    IF Len(vec) > 0
    THEN LET k == ChildIndex(node, vec[1])
             old == IF k = 0 THEN EmptyNode ELSE node.children[k].child
             new == [val |-> vec[1],
                     child |-> _add_vec(old, Tail(vec), Tail(front))]
         IN  [node EXCEPT !.children =
                 IF k # 0 THEN [@ EXCEPT ![k] = new]
                 ELSE IF front[1] THEN <<new>> \o @
                 ELSE Append(@, new)]
    ELSE [node EXCEPT !.present = TRUE]

\* Items iterated backwards
ItemsReversed(node) ==
    [k \in 1..Len(node.children) |->
        node.children[Len(node.children) + 1 - k]]

\* self.children.items(), in the order the mapping iterates
Items(node) == node.children

\* Admits without the test against the query vector
AdmitsNoDominance(val, q, mn) == mn = <<>> \/ val >= mn[1]

\* Admits without the test against min_vec
AdmitsNoLowerBound(val, q, mn) == val <= q[1]

\* Admits with < for <= against the query vector
AdmitsStrict(val, q, mn) == val < q[1] /\ (mn = <<>> \/ val >= mn[1])

\* val <= query_vec[0] and (min_vec == () or val >= min_vec[0])
Admits(val, q, mn) == val <= q[1] /\ (mn = <<>> \/ val >= mn[1])

\* ChildMinVec that keeps the bound below a child past it
ChildMinVecKeepsBound(val, mn) == IF mn = <<>> THEN <<>> ELSE Tail(mn)

\* child_min_vec
ChildMinVec(val, mn) == IF mn = <<>> \/ val > mn[1] THEN <<>> ELSE Tail(mn)

RECURSIVE query_lte(_, _, _), QueryItems(_, _, _, _)
\* the loop over the children of one node
QueryItems(items, k, q, mn) ==
    IF k > Len(items) THEN <<>>
    ELSE LET val == items[k].val
             sub == IF Admits(val, q, mn)
                    THEN query_lte(items[k].child, Tail(q), ChildMinVec(val, mn))
                    ELSE <<>>
         IN  [j \in 1..Len(sub) |-> <<val>> \o sub[j]]
                 \o QueryItems(items, k + 1, q, mn)

\* `() >= min_vec` holds of the empty tuple only
query_lte(node, q, mn) ==
    IF q = <<>>
    THEN IF node.present /\ mn = <<>> THEN << <<>> >> ELSE <<>>
    ELSE QueryItems(Items(node), 1, q, mn)

----------------------------------------------------------------------------
(* Expansion into words. *)

RECURSIVE CrossWords(_, _), CrossWordsHeadOuter(_, _)
\* CrossWords with the two loops exchanged
CrossWordsHeadOuter(head_words, tails) ==
    IF head_words = <<>> THEN <<>>
    ELSE [j \in 1..Len(tails) |-> <<head_words[1]>> \o tails[j]]
             \o CrossWordsHeadOuter(Tail(head_words), tails)

\* for anagram_words in <tails>: for word in <head_words>: yield ...
CrossWords(head_words, tails) ==
    IF tails = <<>> THEN <<>>
    ELSE [j \in 1..Len(head_words) |-> <<head_words[j]>> \o tails[1]]
             \o CrossWords(head_words, Tail(tails))

\* vec_dict is a defaultdict(list)
Lookup(vd, vec) == IF vec \in DOMAIN vd THEN vd[vec] ELSE <<>>

RECURSIVE _expand_anagram_vecs(_, _)
_expand_anagram_vecs(vd, vecs) ==
    IF vecs = <<>> THEN << <<>> >>
    ELSE CrossWords(Lookup(vd, vecs[1]), _expand_anagram_vecs(vd, Tail(vecs)))

----------------------------------------------------------------------------
(* The run of find_anagrams. *)

\* sum(query_vec) == 0
SumIsZero(q) == SumSeq(q) = 0

\* a _find_anagram_vecs generator that has just been called: the vectors
\* tree.query_lte(query_vec, min_vec) will give it, and its place among them
Frame(q, mn) ==
    [q |-> q, mn |-> mn,
     cands |-> IF SumIsZero(q) THEN <<>> ELSE query_lte(tree, q, mn),
     i |-> 1, yielded |-> FALSE]

Top == stack[Len(stack)]

\* (vec,) + anagram, through every live generator
CurrentTuple == [k \in 1..(Len(stack) - 1) |-> stack[k].cands[stack[k].i]]

\* find_anagrams lines 174-175, _make_tree lines 117-119 and _load_words
Load ==
    /\ pc = "start"
    /\ query_word' = _canonicalize_word(query_string)
    /\ query_vec' = _make_vec(query_word')
    /\ tree_query_vec' = IF query_word' # <<>> THEN _make_vec(query_word')
                         ELSE Unbound
    /\ words' = _load_words(lines, min_word_length)
    /\ pending' = words'
    /\ pc' = "dict"
    /\ UNCHANGED <<query_string, lines, min_word_length, vec_dict, todo, tree,
                   stack, anagram_vecs, expanded, outputs, error, min_vec,
                   lte_out>>

\* one turn of the loop of lines 120-123; query_word is a string, never None,
\* so the test reads _make_tree's query_vec, which is unbound for an empty
\* query_word
DictStep ==
    /\ pc = "dict"
    /\ \E word \in pending :
          LET vec == _make_vec(word) IN
          IF tree_query_vec = Unbound
          THEN /\ pc' = "error"
               /\ error' = "UnboundLocalError"
               /\ UNCHANGED <<pending, vec_dict>>
          ELSE /\ pending' = pending \ {word}
               /\ vec_dict' =
                     IF _vec_lte(vec, tree_query_vec)
                     THEN [v \in DOMAIN vec_dict \cup {vec} |->
                              IF v = vec
                              THEN Append(Lookup(vec_dict, vec), word)
                              ELSE vec_dict[v]]
                     ELSE vec_dict
               /\ UNCHANGED <<pc, error>>
    /\ UNCHANGED <<query_string, lines, min_word_length, query_word, query_vec,
                   tree_query_vec, words, todo, tree, stack, anagram_vecs,
                   expanded, outputs, min_vec, lte_out>>

\* the loop of lines 120-123 is over: tree = _VectorSet()
DictDone ==
    /\ pc = "dict"
    /\ pending = {}
    /\ todo' = DOMAIN vec_dict
    /\ tree' = EmptyNode
    /\ pc' = "tree"
    /\ UNCHANGED <<query_string, lines, min_word_length, query_word, query_vec,
                   tree_query_vec, words, pending, vec_dict, stack,
                   anagram_vecs, expanded, outputs, error, min_vec, lte_out>>

\* one turn of the loop of lines 125-126
AddVec ==
    /\ pc = "tree"
    /\ \E vec \in todo, front \in [1..NLetters -> BOOLEAN] :
          /\ tree' = _add_vec(tree, vec, front)
          /\ todo' = todo \ {vec}
    /\ UNCHANGED <<pc, query_string, lines, min_word_length, query_word,
                   query_vec, tree_query_vec, words, pending, vec_dict, stack,
                   anagram_vecs, expanded, outputs, error, min_vec, lte_out>>

\* line 180: _find_anagram_vecs(tree, query_vec) is called and first pulled
StartSearch ==
    /\ pc = "tree"
    /\ todo = {}
    /\ stack' = <<Frame(query_vec, <<>>)>>
    /\ pc' = "search"
    /\ UNCHANGED <<query_string, lines, min_word_length, query_word, query_vec,
                   tree_query_vec, words, pending, vec_dict, todo, tree,
                   anagram_vecs, expanded, outputs, error, min_vec, lte_out>>

\* lines 149-151: the innermost generator yields (), every generator below
\* it prepends its vector, and find_anagrams expands the tuple (181-182)
YieldBase ==
    /\ pc = "search"
    /\ SumIsZero(Top.q)
    /\ ~Top.yielded
    /\ anagram_vecs' = Append(anagram_vecs, CurrentTuple)
    /\ expanded' = _expand_anagram_vecs(vec_dict, CurrentTuple)
    /\ outputs' = outputs \o expanded'
    /\ stack' = [stack EXCEPT ![Len(stack)].yielded = TRUE]
    /\ UNCHANGED <<pc, query_string, lines, min_word_length, query_word,
                   query_vec, tree_query_vec, words, pending, vec_dict, todo,
                   tree, error, min_vec, lte_out>>

\* lines 153-156: the recursive call for the next vector of query_lte; past
\* the interpreter's recursion limit the call raises RuntimeError (maximum
\* recursion depth exceeded) instead
Descend ==
    /\ pc = "search"
    /\ ~SumIsZero(Top.q)
    /\ Top.i <= Len(Top.cands)
    /\ IF Len(stack) >= StackLimit
       THEN /\ pc' = "error"
            /\ error' = "RuntimeError"
            /\ UNCHANGED stack
       ELSE /\ stack' = Append(stack,
                   Frame(_vec_sub(Top.q, Top.cands[Top.i]), Top.cands[Top.i]))
            /\ UNCHANGED <<pc, error>>
    /\ UNCHANGED <<query_string, lines, min_word_length, query_word, query_vec,
                   tree_query_vec, words, pending, vec_dict, todo, tree,
                   anagram_vecs, expanded, outputs, min_vec, lte_out>>

\* a generator is exhausted: its caller moves to its next vector, and
\* find_anagrams ends when the outermost one is
Return ==
    /\ pc = "search"
    /\ IF SumIsZero(Top.q) THEN Top.yielded ELSE Top.i > Len(Top.cands)
    /\ IF Len(stack) = 1
       THEN /\ stack' = <<>>
            /\ pc' = "done"
       ELSE /\ stack' = [SubSeq(stack, 1, Len(stack) - 1)
                            EXCEPT ![Len(stack) - 1].i = @ + 1]
            /\ UNCHANGED pc
    /\ UNCHANGED <<query_string, lines, min_word_length, query_word, query_vec,
                   tree_query_vec, words, pending, vec_dict, todo, tree,
                   anagram_vecs, expanded, outputs, error, min_vec, lte_out>>

\* a direct call tree.query_lte(query_vec, min_vec), pulled to its end
DoQuery ==
    /\ pc = "tree"
    /\ todo = {}
    /\ lte_out' = query_lte(tree, query_vec, min_vec)
    /\ pc' = "queried"
    /\ UNCHANGED <<query_string, lines, min_word_length, query_word, query_vec,
                   tree_query_vec, words, pending, vec_dict, todo, tree, stack,
                   anagram_vecs, expanded, outputs, error, min_vec>>

----------------------------------------------------------------------------
(* Specifications. *)

\* find_anagrams(query_string, word_list, min_word_length) before its first pull
Init ==
    /\ pc = "start"
    /\ query_string \in SeqsUpTo(Chars, MaxQueryLen)
    /\ lines \in SeqsUpTo(SeqsUpTo(Chars, MaxLineLen), MaxLines)
    /\ min_word_length \in 0..MaxMinWordLength
    /\ query_word = <<>>
    /\ query_vec = ZeroVec
    /\ tree_query_vec = Unbound
    /\ words = {}
    /\ pending = {}
    /\ vec_dict = <<>>
    /\ todo = {}
    /\ tree = EmptyNode
    /\ stack = <<>>
    /\ anagram_vecs = <<>>
    /\ expanded = <<>>
    /\ outputs = <<>>
    /\ error = "none"
    /\ min_vec = <<>>
    /\ lte_out = <<>>

Next ==
    \/ Load
    \/ DictStep
    \/ DictDone
    \/ AddVec
    \/ StartSearch
    \/ YieldBase
    \/ Descend
    \/ Return

Spec == Init /\ [][Next]_vars

\* the run is one generator pulled by its caller to the end
FairSpec == Spec /\ WF_vars(Next)

\* a word with the given vector
WordOf(vec) ==
    [i \in 1..SumSeq(vec) |-> IF i <= vec[1] THEN Letters[1] ELSE Letters[2]]

\* _find_anagram_vecs(tree, query_vec) over a tree yet to be filled with any
\* non-zero vectors
InitSearch ==
    /\ pc = "tree"
    /\ query_string = <<>>
    /\ lines = <<>>
    /\ min_word_length = 1
    /\ query_word = <<>>
    /\ query_vec \in Signatures(MaxQueryLen)
    /\ tree_query_vec = query_vec
    /\ words = {}
    /\ pending = {}
    /\ \E S \in SUBSET (Signatures(MaxLineLen) \ {ZeroVec}) :
          /\ Cardinality(S) <= MaxIndex
          /\ todo = S
          /\ vec_dict = [v \in S |-> <<WordOf(v)>>]
    /\ tree = EmptyNode
    /\ stack = <<>>
    /\ anagram_vecs = <<>>
    /\ expanded = <<>>
    /\ outputs = <<>>
    /\ error = "none"
    /\ min_vec = <<>>
    /\ lte_out = <<>>

NextSearch ==
    \/ AddVec
    \/ StartSearch
    \/ YieldBase
    \/ Descend
    \/ Return

SpecSearch == InitSearch /\ [][NextSearch]_vars

\* tree.query_lte(query_vec, min_vec) over a tree yet to be filled with any
\* vectors, min_vec empty or a full-length vector
InitQuery ==
    /\ pc = "tree"
    /\ query_string = <<>>
    /\ lines = <<>>
    /\ min_word_length = 1
    /\ query_word = <<>>
    /\ query_vec \in Signatures(MaxQueryLen)
    /\ tree_query_vec = query_vec
    /\ words = {}
    /\ pending = {}
    /\ \E S \in SUBSET Signatures(MaxLineLen) :
          /\ Cardinality(S) <= MaxIndex
          /\ todo = S
          /\ vec_dict = [v \in S |-> <<WordOf(v)>>]
    /\ tree = EmptyNode
    /\ stack = <<>>
    /\ anagram_vecs = <<>>
    /\ expanded = <<>>
    /\ outputs = <<>>
    /\ error = "none"
    /\ min_vec \in Signatures(MaxLineLen) \cup {<<>>}
    /\ lte_out = <<>>

NextQuery ==
    \/ AddVec
    \/ DoQuery

SpecQuery == InitQuery /\ [][NextQuery]_vars

\* the canonicalized words that have the given vector
WordsWithVec(vec) ==
    {w \in [1..SumSeq(vec) -> Range(Letters)] : _make_vec(w) = vec}

\* the lists _make_tree can store for a vector: some of its words, each
\* once, in any order
WordLists(vec) ==
    {list \in SeqsUpTo(WordsWithVec(vec), Cardinality(WordsWithVec(vec))) :
        /\ list # <<>>
        /\ \A i, j \in 1..Len(list) : i # j => list[i] # list[j]}

\* a direct call _expand_anagram_vecs(vec_dict, anagram_vecs), pulled to its
\* end
DoExpand ==
    /\ pc = "expand"
    /\ expanded' = _expand_anagram_vecs(vec_dict, anagram_vecs[1])
    /\ outputs' = expanded'
    /\ pc' = "expanded"
    /\ UNCHANGED <<query_string, lines, min_word_length, query_word, query_vec,
                   tree_query_vec, words, pending, vec_dict, todo, tree, stack,
                   anagram_vecs, error, min_vec, lte_out>>

\* _expand_anagram_vecs(vec_dict, anagram_vecs) for any mapping of up to
\* MaxLines non-zero vectors to lists of their words and any tuple of up to
\* MaxLines vectors of the mapping
InitExpand ==
    /\ pc = "expand"
    /\ query_string = <<>>
    /\ lines = <<>>
    /\ min_word_length = 1
    /\ query_word = <<>>
    /\ query_vec = ZeroVec
    /\ tree_query_vec = ZeroVec
    /\ words = {}
    /\ pending = {}
    /\ \E S \in SUBSET (Signatures(MaxLineLen) \ {ZeroVec}) :
          /\ Cardinality(S) <= MaxLines
          /\ vec_dict \in [S -> UNION {WordLists(v) : v \in S}]
          /\ \A v \in S : vec_dict[v] \in WordLists(v)
          /\ \E t \in SeqsUpTo(S, MaxLines) : anagram_vecs = <<t>>
    /\ todo = {}
    /\ tree = EmptyNode
    /\ stack = <<>>
    /\ expanded = <<>>
    /\ outputs = <<>>
    /\ error = "none"
    /\ min_vec = <<>>
    /\ lte_out = <<>>

NextExpand == DoExpand

SpecExpand == InitExpand /\ [][NextExpand]_vars

----------------------------------------------------------------------------
(* Vocabulary of the properties. *)

\* the vectors inserted into the tree
Indexed == DOMAIN vec_dict

Dominated(s, q) == \A l \in 1..NLetters : s[l] <= q[l]

RECURSIVE SumVecs(_)
SumVecs(t) ==
    IF t = <<>> THEN ZeroVec
    ELSE [l \in 1..NLetters |-> t[1][l] + SumVecs(Tail(t))[l]]

NonDecreasing(t) == \A m \in 1..(Len(t) - 1) : LexLeq(t[m], t[m + 1])

Occurrences(x, t) == Cardinality({m \in 1..Len(t) : t[m] = x})

IsPermutation(t, u) ==
    /\ Len(t) = Len(u)
    /\ \A x \in Range(t) \cup Range(u) : Occurrences(x, t) = Occurrences(x, u)

NoRepeats(t) == \A i, j \in 1..Len(t) : i # j => t[i] # t[j]

StrictlyAscending(t) == \A i, j \in 1..Len(t) : i < j => LexLess(t[i], t[j])

RECURSIVE ChildrenAscending(_)
ChildrenAscending(node) ==
    /\ \A k \in 1..(Len(node.children) - 1) :
          node.children[k].val < node.children[k + 1].val
    /\ \A k \in 1..Len(node.children) : ChildrenAscending(node.children[k].child)

\* every non-decreasing tuple of indexed vectors that sums to the query
SolutionTuples ==
    {t \in SeqsUpTo(Indexed, SumSeq(query_vec)) :
        NonDecreasing(t) /\ SumVecs(t) = query_vec}

----------------------------------------------------------------------------
(* query_lte (SpecQuery). *)

\* C6: query_lte(q, lb) yields exactly the inserted vectors that are <= q in
\* every component and lexicographically >= lb, each of them once.
C6_DominanceQuery ==
    pc = "queried" =>
        /\ Range(lte_out) =
              {s \in Indexed : Dominated(s, query_vec)
                               /\ (min_vec = <<>> \/ LexLeq(min_vec, s))}
        /\ NoRepeats(lte_out)

\* C6 witness: a bounded query that yields a vector past the bound in its
\* first component and below it in the second, leaves out a dominated vector
\* below the bound and leaves out a vector above the query.
C6_Witness ==
    /\ pc = "queried"
    /\ min_vec # <<>>
    /\ \E s \in Range(lte_out) : s[1] > min_vec[1] /\ s[2] < min_vec[2]
    /\ \E s \in Indexed : Dominated(s, query_vec) /\ LexLess(s, min_vec)
    /\ \E s \in Indexed : ~Dominated(s, query_vec) /\ LexLeq(min_vec, s)

\* C8 as stated: whatever the insertion order, query_lte yields its vectors
\* in ascending lexicographic order.
C8_AscendingOrder == pc = "queried" => StrictlyAscending(lte_out)

\* C8 amended: query_lte yields its vectors in ascending lexicographic order
\* when every node's children mapping iterates its keys in ascending order.
C8_AscendingWhenChildrenAscending ==
    (pc = "queried" /\ ChildrenAscending(tree)) => StrictlyAscending(lte_out)

\* C8 witness: a tree whose mappings all iterate in ascending order and a
\* query that yields three vectors.
C8_Witness ==
    /\ pc = "queried"
    /\ ChildrenAscending(tree)
    /\ Len(lte_out) >= 3

----------------------------------------------------------------------------
(* _find_anagram_vecs (SpecSearch). *)

\* C3: once the search is exhausted, every non-decreasing tuple of indexed
\* vectors that sums to the query vector has been yielded.
C3_Completeness ==
    pc = "done" => \A t \in SolutionTuples : t \in Range(anagram_vecs)

\* C3 witness: an exhausted search of a query that has at least three
\* solutions, one of them of two different vectors.
C3_Witness ==
    /\ pc = "done"
    /\ Cardinality(SolutionTuples) >= 3
    /\ \E t \in SolutionTuples : Len(t) >= 2 /\ t[1] # t[2]

\* C4: every yielded tuple consists of indexed vectors and sums to the query
\* vector.
C4_Exactness ==
    \A k \in 1..Len(anagram_vecs) :
        /\ Range(anagram_vecs[k]) \subseteq Indexed
        /\ SumVecs(anagram_vecs[k]) = query_vec

\* C4 witness: two tuples yielded, one of several vectors, over an index
\* that also holds a vector the query does not dominate.
C4_Witness ==
    /\ Len(anagram_vecs) >= 2
    /\ \E k \in 1..Len(anagram_vecs) : Len(anagram_vecs[k]) >= 2
    /\ \E s \in Indexed : ~Dominated(s, query_vec)

\* C5: no two yielded tuples are permutations of each other, and every
\* yielded tuple is non-decreasing.
C5_NoDuplicateMultiset ==
    /\ \A i, j \in 1..Len(anagram_vecs) :
          i # j => ~IsPermutation(anagram_vecs[i], anagram_vecs[j])
    /\ \A k \in 1..Len(anagram_vecs) : NonDecreasing(anagram_vecs[k])

\* C5 witness: an exhausted search that yielded a tuple of two different
\* vectors, whose other order also sums to the query.
C5_Witness ==
    /\ pc = "done"
    /\ \E k \in 1..Len(anagram_vecs) :
          \E m \in 1..(Len(anagram_vecs[k]) - 1) :
              anagram_vecs[k][m] # anagram_vecs[k][m + 1]

----------------------------------------------------------------------------
(* find_anagrams (Spec, FairSpec). *)

\* the canonicalized line i of the word list
CanonLine(i) == _canonicalize_word(lines[i])

\* _make_tree has returned
TreeBuilt == pc \in {"tree", "search", "done"}

\* the vector tuple _find_anagram_vecs yielded last
LastTuple == anagram_vecs[Len(anagram_vecs)]

\* expanded holds the expansion of LastTuple
Expanding == Len(anagram_vecs) > 0 /\ pc # "expand"

\* the place of a word in a list of words (0: not in it)
PlaceIn(list, word) ==
    IF \E k \in 1..Len(list) : list[k] = word
    THEN CHOOSE k \in 1..Len(list) : list[k] = word
    ELSE 0

\* C1 as stated: a query with no letter raises nothing and yields the empty
\* word tuple, once, whatever the word list and the minimum length.
C1_EmptyQueryYieldsEmptyTuple ==
    (pc # "start" /\ _canonicalize_word(query_string) = <<>>) =>
        /\ error = "none"
        /\ pc = "done" => outputs = << <<>> >>

\* C2 as stated: a run with min_word_length <= 0 is a run with
\* min_word_length = 1.  The only use of min_word_length is the filter of
\* _load_words, so the run must load the words a minimum of 1 loads, and,
\* like every run with a minimum of 1, it must not overflow the stack.
C2_NonPositiveMinLengthActsAsOne ==
    (pc # "start" /\ min_word_length <= 0) =>
        /\ words = _load_words(lines, 1)
        /\ error # "RuntimeError"

\* C7 as stated: the list of a vector has one element per line of the word
\* list that has that vector (and at least the minimum length).
C7_OneElementPerLine ==
    TreeBuilt =>
        \A v \in DOMAIN vec_dict :
            Len(vec_dict[v]) =
                Cardinality({i \in 1..Len(lines) :
                                /\ Len(CanonLine(i)) >= min_word_length
                                /\ _make_vec(CanonLine(i)) = v})

\* C7 amended: the list of a vector has one element per distinct
\* canonicalized word of the word list that has that vector, at least the
\* minimum length and no letter the query lacks; a word on several lines is
\* stored once; and every word of the list of a vector of a yielded tuple
\* appears at that vector's place in some yielded word tuple.
C7_OneElementPerDistinctWord ==
    /\ TreeBuilt =>
          \A v \in Signatures(MaxLineLen) :
              /\ Range(Lookup(vec_dict, v)) =
                    {w \in {CanonLine(i) : i \in 1..Len(lines)} :
                        /\ Len(w) >= min_word_length
                        /\ _make_vec(w) = v
                        /\ Dominated(v, query_vec)}
              /\ NoRepeats(Lookup(vec_dict, v))
    /\ \A k \in 1..Len(anagram_vecs) :
          \A m \in 1..Len(anagram_vecs[k]) :
              \A w \in Range(Lookup(vec_dict, anagram_vecs[k][m])) :
                  \E o \in Range(outputs) :
                      Len(o) = Len(anagram_vecs[k]) /\ o[m] = w

\* C7 witness: an exhausted run over a word list with the same canonicalized
\* word on two lines (that differ as raw text), the word being part of a
\* yielded anagram.
C7_Witness ==
    /\ pc = "done"
    /\ \E i, j \in 1..Len(lines) :
          /\ i # j
          /\ lines[i] # lines[j]
          /\ CanonLine(i) = CanonLine(j)
          /\ \E o \in Range(outputs) : CanonLine(i) \in Range(o)

\* C9 as stated: the head vector's word list is the outer loop, so within
\* the expansion of one vector tuple no word tuple that starts with a later
\* word of the list comes before one that starts with an earlier word.
C9_HeadListOuter ==
    \A i, j \in 1..Len(expanded) :
        (i < j /\ Expanding /\ LastTuple # <<>>) =>
            PlaceIn(vec_dict[LastTuple[1]], expanded[i][1])
                <= PlaceIn(vec_dict[LastTuple[1]], expanded[j][1])

\* C9 amended: the expanded tail is the outer loop and the head vector's
\* word list the inner loop: the expansion of a non-empty vector tuple is a
\* run of groups, one per expanded tail, each group going through the head
\* vector's word list in its stored order with the same tail, so all word
\* tuples with the first expanded tail are yielded before any with the next.
C9_TailOuter ==
    (Expanding /\ LastTuple # <<>>) =>
        LET head_words == vec_dict[LastTuple[1]]
            n == Len(head_words)
            Group(i) == (i - 1) \div n
        IN  \A i \in 1..Len(expanded) :
                /\ expanded[i][1] = head_words[((i - 1) % n) + 1]
                /\ \A j \in 1..Len(expanded) :
                      Group(i) = Group(j) <=>
                          Tail(expanded[i]) = Tail(expanded[j])

\* C9 witness: the expansion of a tuple whose head vector has two words and
\* whose tail expands in two ways.
C9_Witness ==
    /\ Expanding
    /\ Len(LastTuple) >= 2
    /\ Len(vec_dict[LastTuple[1]]) >= 2
    /\ \E i, j \in 1..Len(expanded) : Tail(expanded[i]) # Tail(expanded[j])

\* C10: with min_word_length >= 1 the search never holds more generators
\* than the query has letters, plus one for the base case, never overflows
\* the stack, and the run ends.
C10_Termination ==
    /\ [](min_word_length >= 1 =>
             /\ Len(stack) <= SumSeq(query_vec) + 1
             /\ error # "RuntimeError")
    /\ <>(min_word_length >= 1 => pc \in {"done", "error"})

\* C10 witness: an exhausted run with min_word_length >= 1 that yielded a
\* tuple of as many vectors as the query has letters, three or more.
C10_Witness ==
    /\ pc = "done"
    /\ min_word_length >= 1
    /\ \E k \in 1..Len(anagram_vecs) :
          /\ Len(anagram_vecs[k]) = SumSeq(query_vec)
          /\ Len(anagram_vecs[k]) >= 3

====
